---- MODULE Spec2Model ----
(***************************************************************************)
(* Attribute resolution of binrw_derive: parser/field_level_attrs.rs.     *)
(*                                                                         *)
(* A resolution handles one struct field or one enum variant.  The        *)
(* directive list of the item is folded one directive per step into the   *)
(* value under construction (`this`), errors being accumulated; when the  *)
(* list ends the resolver validates and returns a ParseResult (Ok,        *)
(* Partial or Err).  Option<T> is modelled as a sequence of length <= 1   *)
(* (<<>> is None), a span as the 1-based position of the directive in the *)
(* directive list, an opaque expression as the string "expr".             *)
(***************************************************************************)
EXTENDS Naturals, Sequences, FiniteSets

\* Longest directive list of one field or variant.
MaxAttrs == 3
\* Largest positional index of a field inside its structure.
MaxIndex == 1
\* Most fields of a compound enum variant.
MaxFields == 2

VARIABLES
    write,      \* options.write: resolving for the write derive
    input,      \* the syn::Field or syn::Variant being resolved, and its index
    malformed,  \* the directive list does not scan at all
    pc,         \* position of the resolution
    n,          \* directives folded so far
    listed,     \* which of deref_now / offset_after the directives folded so far name
    this,       \* the StructField under construction / resolved
    unit,       \* the UnitEnumField under construction / resolved
    strukt,     \* the Struct of a compound variant under construction / resolved
    errors,     \* accumulated syn::Error, one entry per combined diagnostic
    outcome,    \* ParseResult kind of the finished resolution
    variant,    \* the EnumVariant returned by EnumVariant::from_field
    view        \* Struct obtained from the EnumVariant by From<EnumVariant>

vars == <<write, input, malformed, pc, n, listed, this, unit, strukt, errors, outcome,
          variant, view>>

None == <<>>
Some(v) == <<v>>

MUTEX_MSG == "deref_now and offset_after are mutually exclusive"
TRY_MSG == "try is incompatible with default and calc"
ARGS_MSG == "args is incompatible with calc"
DUPLICATE_MSG == "conflicting keyword"
UNKNOWN_MSG == "unexpected keyword"
SCAN_MSG == "malformed attribute"

\* A diagnostic: message and the span it points at.
Error(msg, span) == [msg |-> msg, span |-> span]

\* The span of the directive at position `at`.
SpanAt(at) == <<at, at>>

\* The span of the whole field (self.field.span()).
FieldSpan == <<0, 0>>

Msgs(errs) == {errs[i].msg : i \in 1..Len(errs)}

(***************************************************************************)
(* Directive catalog of StructField: keyword -> attribute, value, modes.   *)
(***************************************************************************)
\* Keywords accepted for a field in both modes (RW:), read only (R:), write only (W:).
FieldKeywordsRW ==
    {"Big", "Little", "IsBig", "IsLittle", "Map", "TryMap", "Repr", "Magic",
     "Args", "ArgsRaw", "Calc", "Ignore", "RestorePosition", "Assert",
     "PadBefore", "PadAfter", "AlignBefore", "AlignAfter", "SeekBefore",
     "PadSizeTo"}

FieldKeywordsR ==
    {"Default", "ParseWith", "Count", "Offset", "OffsetAfter", "If", "DerefNow",
     "PostProcessNow", "Try", "Temp", "ErrContext"}

FieldKeywordsW == {"WriteWith"}

\* The keywords of the two attributes validate holds mutually exclusive.
ExclusiveKeywords == {"OffsetAfter", "DerefNow", "PostProcessNow"}

\* A keyword no catalog knows (or a known one given a value of the wrong shape).
Bogus == "Bogus"

FieldKeywords == FieldKeywordsRW \cup FieldKeywordsR \cup FieldKeywordsW \cup {Bogus}

\* The keywords StructFieldAttr<false> and StructFieldAttr<true> parse.
StructFieldAttrRead == FieldKeywordsRW \cup FieldKeywordsR

StructFieldAttrWrite == FieldKeywordsRW \cup FieldKeywordsW

StructFieldAttr(w) == IF w THEN StructFieldAttrWrite ELSE StructFieldAttrRead

\* The attribute of StructField each keyword populates (the #[from] lists).
FieldAttrTable ==
  [kw \in FieldKeywordsRW \cup FieldKeywordsR \cup FieldKeywordsW |->
    CASE kw \in {"Big", "Little", "IsBig", "IsLittle"} -> "endian"
      [] kw \in {"Map", "TryMap", "Repr"} -> "map"
      [] kw = "Magic" -> "magic"
      [] kw \in {"Args", "ArgsRaw"} -> "args"
      [] kw \in {"Calc", "Default", "Ignore", "ParseWith", "WriteWith"} -> "read_mode"
      [] kw = "Count" -> "count"
      [] kw = "Offset" -> "offset"
      [] kw = "OffsetAfter" -> "offset_after"
      [] kw = "If" -> "if_cond"
      [] kw \in {"DerefNow", "PostProcessNow"} -> "deref_now"
      [] kw = "RestorePosition" -> "restore_position"
      [] kw = "Try" -> "do_try"
      [] kw = "Temp" -> "temp"
      [] kw = "Assert" -> "assertions"
      [] kw = "ErrContext" -> "err_context"
      [] kw = "PadBefore" -> "pad_before"
      [] kw = "PadAfter" -> "pad_after"
      [] kw = "AlignBefore" -> "align_before"
      [] kw = "AlignAfter" -> "align_after"
      [] kw = "SeekBefore" -> "seek_before"
      [] kw = "PadSizeTo" -> "pad_size_to"]

FieldAttrOf(kw) == FieldAttrTable[kw]

\* The keywords whose value is stored with its span (SpannedValue).
SpannedKeywords == {"OffsetAfter", "DerefNow", "PostProcessNow", "Try"}

\* The value each keyword without span converts into (the From impls of types::*).
FieldValueTable ==
  [kw \in (FieldKeywordsRW \cup FieldKeywordsR \cup FieldKeywordsW) \ SpannedKeywords |->
    CASE kw = "Big" -> "FixedBig"
      [] kw = "Little" -> "FixedLittle"
      [] kw = "IsBig" -> "CondBig"
      [] kw = "IsLittle" -> "CondLittle"
      [] kw = "Map" -> "Map"
      [] kw = "TryMap" -> "Try"
      [] kw = "Repr" -> "Repr"
      [] kw = "Args" -> "List"
      [] kw = "ArgsRaw" -> "Raw"
      [] kw = "Calc" -> "Calc"
      [] kw \in {"Default", "Ignore"} -> "Default"
      [] kw = "ParseWith" -> "ParseWith"
      [] kw = "WriteWith" -> "WriteWith"
      [] kw \in {"RestorePosition", "Temp"} -> Some("unit")
      [] OTHER -> Some("expr")]

\* The value the keyword at position `at` converts into.
FieldValueOf(kw, at) ==
    IF kw \in SpannedKeywords THEN Some(at) ELSE FieldValueTable[kw]

\* <_>::default() of each single-valued attribute.
FieldDefaults ==
    [endian |-> "Inherited", map |-> "None", magic |-> None, args |-> "None",
     read_mode |-> "Normal", count |-> None, offset |-> None,
     offset_after |-> None, if_cond |-> None, deref_now |-> None,
     restore_position |-> None, do_try |-> None, temp |-> None,
     err_context |-> None, pad_before |-> None, pad_after |-> None,
     align_before |-> None, align_after |-> None, seek_before |-> None,
     pad_size_to |-> None]

FieldDefault(attr) == FieldDefaults[attr]

\* The single-valued attributes of StructField (every #[from] attribute but the Vec).
FieldAttrs ==
    {"endian", "map", "magic", "args", "read_mode", "count", "offset",
     "offset_after", "if_cond", "deref_now", "restore_position", "do_try",
     "temp", "err_context", "pad_before", "pad_after", "align_before",
     "align_after", "seek_before", "pad_size_to"}

(***************************************************************************)
(* StructField                                                             *)
(***************************************************************************)
\* The identifier of a field: its own, or self_<index> for a positional one.
FieldIdent(field, index) ==
    IF field.ident = None THEN <<"self_", index>> ELSE <<field.ident[1]>>

\* A StructField that starts out as a default-valued field.
StructFieldNewDefaultMode(field, index) ==
    [ident |-> FieldIdent(field, index),
     generated_ident |-> (field.ident = None),
     ty |-> field.ty,
     endian |-> "Inherited", map |-> "None", magic |-> None, args |-> "None",
     read_mode |-> "Default", count |-> None, offset |-> None,
     offset_after |-> None, if_cond |-> None, deref_now |-> None,
     restore_position |-> None, do_try |-> None, temp |-> None,
     assertions |-> <<>>, pad_before |-> None, pad_after |-> None,
     align_before |-> None, align_after |-> None, seek_before |-> None,
     pad_size_to |-> None, err_context |-> None]

\* `this` as from_field builds it before folding.
StructFieldNew(field, index) ==
    [ident |-> FieldIdent(field, index),
     generated_ident |-> (field.ident = None),
     ty |-> field.ty,
     endian |-> "Inherited", map |-> "None", magic |-> None, args |-> "None",
     read_mode |-> "Normal", count |-> None, offset |-> None,
     offset_after |-> None, if_cond |-> None, deref_now |-> None,
     restore_position |-> None, do_try |-> None, temp |-> None,
     assertions |-> <<>>, pad_before |-> None, pad_after |-> None,
     align_before |-> None, align_after |-> None, seek_before |-> None,
     pad_size_to |-> None, err_context |-> None]

\* TrySet in which a repeated attribute takes the later value.
FieldTrySetLast(t, kw, at, w) ==
    IF kw \notin StructFieldAttr(w) THEN <<t, Some(Error(UNKNOWN_MSG, SpanAt(at)))>>
    ELSE IF FieldAttrOf(kw) = "assertions"
    THEN <<[t EXCEPT !.assertions = Append(@, at)], None>>
    ELSE IF t[FieldAttrOf(kw)] # FieldDefault(FieldAttrOf(kw))
    THEN <<[t EXCEPT ![FieldAttrOf(kw)] = FieldValueOf(kw, at)],
           Some(Error(DUPLICATE_MSG, SpanAt(at)))>>
    ELSE <<[t EXCEPT ![FieldAttrOf(kw)] = FieldValueOf(kw, at)], None>>

\* TrySet<StructFieldAttr>: fold one directive; <<this', the error or None>>.
FieldTrySet(t, kw, at, w) ==
    IF kw \notin StructFieldAttr(w) THEN <<t, Some(Error(UNKNOWN_MSG, SpanAt(at)))>>
    ELSE IF FieldAttrOf(kw) = "assertions"
    THEN <<[t EXCEPT !.assertions = Append(@, at)], None>>
    ELSE IF t[FieldAttrOf(kw)] # FieldDefault(FieldAttrOf(kw))
    THEN <<t, Some(Error(DUPLICATE_MSG, SpanAt(at)))>>
    ELSE <<[t EXCEPT ![FieldAttrOf(kw)] = FieldValueOf(kw, at)], None>>

can_call_after_parse(t) == t.read_mode = "Normal" /\ t.map = "None"

should_use_after_parse(t) == t.deref_now = None /\ t.map = "None"

\* generated_value that forgets FieldMode::Default.
generated_valueCalcOnly(t) == t.read_mode = "Calc"

generated_value(t) == t.read_mode \in {"Calc", "Default"}

is_temp(t, for_write) == (for_write /\ t.read_mode = "Calc") \/ t.temp # None

is_written(t) == t.read_mode # "Default"

needs_options(t) == ~generated_value(t) \/ t.magic # None

\* The attributes all_fields_none! lists.
AllFieldsNone ==
    {"count", "offset", "offset_after", "if_cond", "deref_now",
     "restore_position", "do_try", "temp", "pad_before", "pad_after",
     "align_before", "align_after", "seek_before", "pad_size_to", "magic"}

has_no_attrs(t) ==
    /\ t.endian = "Inherited"
    /\ t.map = "None"
    /\ t.args = "None"
    /\ t.read_mode = "Normal"
    /\ \A f \in AllFieldsNone : t[f] = None

\* Span::join: the span covering both, when the compiler can compute it.
Join(a, b, joinable) ==
    IF joinable THEN Some(<<IF a < b THEN a ELSE b, IF a < b THEN b ELSE a>>) ELSE None

\* StructField::validate: None for Ok(()), Some(error) for Err(error).
validate(t, joinable) ==
    IF t.offset_after # None /\ t.deref_now # None
    THEN LET offset_after_span == t.offset_after[1]
             joined == Join(offset_after_span, t.deref_now[1], joinable)
             span == IF joined # None THEN joined[1] ELSE SpanAt(offset_after_span)
         IN  Some(Error(MUTEX_MSG, span))
    ELSE IF t.do_try # None /\ generated_value(t)
    THEN Some(Error(TRY_MSG, SpanAt(t.do_try[1])))
    ELSE IF t.read_mode = "Calc" /\ t.args # "None"
    THEN Some(Error(ARGS_MSG, FieldSpan))
    ELSE None

\* FromAttrs::set_from_attrs seen from its caller: the ParseResult kind of a fold
\* that accumulated `errs`, Err when the directive list did not scan.
set_from_attrs(bad, errs) ==
    IF bad THEN "Err" ELSE IF errs = <<>> THEN "Ok" ELSE "Partial"

\* The match of from_field without validation of a Partial fold.
FieldResultNoRevalidate(result, t, parse_error, joinable) ==
    CASE result = "Ok" ->
           IF validate(t, joinable) # None
           THEN [kind |-> "Partial", errors |-> validate(t, joinable)]
           ELSE [kind |-> "Ok", errors |-> <<>>]
      [] result = "Partial" -> [kind |-> "Partial", errors |-> parse_error]
      [] result = "Err" ->
           [kind |-> "Err", errors |-> <<Error(SCAN_MSG, FieldSpan)>>]

\* The match of from_field without validation of an Ok fold.
FieldResultOkUnchecked(result, t, parse_error, joinable) ==
    CASE result = "Ok" -> [kind |-> "Ok", errors |-> <<>>]
      [] result = "Partial" ->
           [kind |-> "Partial", errors |-> parse_error \o validate(t, joinable)]
      [] result = "Err" ->
           [kind |-> "Err", errors |-> <<Error(SCAN_MSG, FieldSpan)>>]

\* The match at the end of StructField::from_field: kind and errors returned.
FieldResult(result, t, parse_error, joinable) ==
    CASE result = "Ok" ->
           IF validate(t, joinable) # None
           THEN [kind |-> "Partial", errors |-> validate(t, joinable)]
           ELSE [kind |-> "Ok", errors |-> <<>>]
      [] result = "Partial" ->
           [kind |-> "Partial", errors |-> parse_error \o validate(t, joinable)]
      [] result = "Err" ->
           [kind |-> "Err", errors |-> <<Error(SCAN_MSG, FieldSpan)>>]

(***************************************************************************)
(* UnitEnumField, Struct, EnumVariant                                      *)
(***************************************************************************)
UnitKeywordsRW == {"Magic"}

UnitKeywordsR == {"PreAssert"}

UnitKeywords == UnitKeywordsRW \cup UnitKeywordsR \cup {Bogus}

\* The keywords UnitEnumFieldAttr<WRITE> parses.
UnitEnumFieldAttr(w) == UnitKeywordsRW \cup (IF w THEN {} ELSE UnitKeywordsR)

\* `this` as UnitEnumField::from_field builds it before folding.
UnitEnumFieldNew(v) == [ident |-> v.ident, magic |-> None, pre_assertions |-> <<>>]

\* TrySet<UnitEnumFieldAttr>: fold one directive; <<this', the error or None>>.
UnitTrySet(u, kw, at, w) ==
    IF kw \notin UnitEnumFieldAttr(w) THEN <<u, Some(Error(UNKNOWN_MSG, SpanAt(at)))>>
    ELSE IF kw = "PreAssert"
    THEN <<[u EXCEPT !.pre_assertions = Append(@, at)], None>>
    ELSE IF u.magic # None THEN <<u, Some(Error(DUPLICATE_MSG, SpanAt(at)))>>
    ELSE <<[u EXCEPT !.magic = Some("expr")], None>>

\* Struct::default().
StructDefault ==
    [endian |-> "Inherited", map |-> "None", magic |-> None, imports |-> "None",
     pre_assertions |-> <<>>, assertions |-> <<>>, fields |-> <<>>]

StructKeywordsRW == {"Big", "Little", "Map", "Magic", "Import", "Assert"}

StructKeywordsR == {"PreAssert"}

StructKeywords == StructKeywordsRW \cup StructKeywordsR \cup {Bogus}

\* The keywords StructAttr<WRITE> parses.
StructAttr(w) == StructKeywordsRW \cup (IF w THEN {} ELSE StructKeywordsR)

StructAttrOf(kw) ==
    CASE kw \in {"Big", "Little"} -> "endian"
      [] kw = "Map" -> "map"
      [] kw = "Magic" -> "magic"
      [] kw = "Import" -> "imports"
      [] kw = "Assert" -> "assertions"
      [] kw = "PreAssert" -> "pre_assertions"

StructValueOf(kw) ==
    CASE kw = "Big" -> "FixedBig"
      [] kw = "Little" -> "FixedLittle"
      [] kw = "Map" -> "Map"
      [] kw = "Import" -> "List"
      [] OTHER -> Some("expr")

\* TrySet<StructAttr>: fold one directive; <<this', the error or None>>.
StructTrySet(s, kw, at, w) ==
    IF kw \notin StructAttr(w) THEN <<s, Some(Error(UNKNOWN_MSG, SpanAt(at)))>>
    ELSE IF StructAttrOf(kw) \in {"assertions", "pre_assertions"}
    THEN <<[s EXCEPT ![StructAttrOf(kw)] = Append(@, at)], None>>
    ELSE IF s[StructAttrOf(kw)] # StructDefault[StructAttrOf(kw)]
    THEN <<s, Some(Error(DUPLICATE_MSG, SpanAt(at)))>>
    ELSE <<[s EXCEPT ![StructAttrOf(kw)] = StructValueOf(kw)], None>>

\* The syn::Field list of a variant: named fields f1, f2, ... or positional ones.
VariantFields(v) ==
    [i \in 1..v.nfields |->
        [ident |-> IF v.fields = "Named" THEN Some(<<"f", i>>) ELSE None, ty |-> "T"]]

\* Struct::from_input before folding the struct-level directives: every field
\* resolved by StructField::from_field (the fields carry no directives here).
StructNew(v) ==
    [StructDefault EXCEPT
        !.fields = [i \in 1..v.nfields |-> StructFieldNew(VariantFields(v)[i], i - 1)]]

\* Struct::has_no_attrs.
Struct_has_no_attrs(s) ==
    /\ s.endian = "Inherited"
    /\ s.map = "None"
    /\ s.magic = None
    /\ s.imports = "None"
    /\ \A i \in 1..Len(s.fields) : has_no_attrs(s.fields[i])

\* impl From<UnitEnumField> for Struct.
StructFromUnit(value) ==
    [StructDefault EXCEPT !.magic = value.magic,
                          !.pre_assertions = value.pre_assertions]

\* EnumVariant::ident.
EnumVariant_ident(v) == IF v.tag = "Variant" THEN v.ident ELSE v.field.ident

\* EnumVariant::has_no_attrs.
EnumVariant_has_no_attrs(v) ==
    IF v.tag = "Variant" THEN Struct_has_no_attrs(v.options) ELSE TRUE

\* impl From<EnumVariant> for Struct.
StructFromEnumVariant(value) ==
    IF value.tag = "Variant" THEN value.options ELSE StructFromUnit(value.field)

\* The dispatch of EnumVariant::from_field sending positional variants to the Unit path.
EnumVariantOfNamedOnly(v, u, s) ==
    IF v.fields = "Named"
    THEN [tag |-> "Variant", ident |-> v.ident, options |-> s]
    ELSE [tag |-> "Unit", field |-> u]

\* The EnumVariant that EnumVariant::from_field maps the resolved value into.
EnumVariantOf(v, u, s) ==
    IF v.fields \in {"Named", "Unnamed"}
    THEN [tag |-> "Variant", ident |-> v.ident, options |-> s]
    ELSE [tag |-> "Unit", field |-> u]

(***************************************************************************)
(* The resolution as a state machine                                       *)
(***************************************************************************)
FieldInputs ==
    {[ident |-> Some("x"), ty |-> "T", index |-> 0]}
    \cup {[ident |-> None, ty |-> "T", index |-> i] : i \in 0..MaxIndex}

VariantInputs ==
    {[ident |-> "V", fields |-> "Unit", nfields |-> 0, index |-> i] : i \in 0..MaxIndex}
    \cup {[ident |-> "V", fields |-> f, nfields |-> k, index |-> i] :
            f \in {"Named", "Unnamed"}, k \in 0..MaxFields, i \in 0..MaxIndex}

NoVariant == [tag |-> "NoValue"]

Init ==
    /\ write \in BOOLEAN
    /\ malformed \in BOOLEAN
    /\ \/ /\ pc = "field_attrs"
          /\ input \in FieldInputs
          /\ this = StructFieldNew(input, input.index)
          /\ unit = UnitEnumFieldNew([ident |-> "V"])
          /\ strukt = StructDefault
       \/ /\ pc = "variant_attrs"
          /\ input \in VariantInputs
          /\ this = StructFieldNew([ident |-> None, ty |-> "T"], 0)
          /\ unit = UnitEnumFieldNew(input)
          /\ strukt = StructNew(input)
    /\ n = 0
    /\ listed = {}
    /\ errors = <<>>
    /\ outcome = "Pending"
    /\ variant = NoVariant
    /\ view = StructDefault

\* One iteration of set_from_attrs for a StructField: the next directive is kw.
TrySetFieldAttr(kw) ==
    /\ pc = "field_attrs"
    /\ ~malformed
    /\ n < MaxAttrs
    /\ this' = FieldTrySet(this, kw, n + 1, write)[1]
    /\ errors' = errors \o FieldTrySet(this, kw, n + 1, write)[2]
    /\ n' = n + 1
    /\ listed' = listed \cup (IF kw \in ExclusiveKeywords THEN {FieldAttrOf(kw)} ELSE {})
    /\ UNCHANGED <<write, input, malformed, pc, unit, strukt, outcome, variant, view>>

\* StructField::from_field at the end of the directive list: validate and return.
StructField_from_field(joinable) ==
    /\ pc = "field_attrs"
    /\ LET r == FieldResult(set_from_attrs(malformed, errors), this, errors, joinable)
       IN  /\ outcome' = r.kind
           /\ errors' = r.errors
    /\ pc' = "field_done"
    /\ UNCHANGED <<write, input, malformed, n, listed, this, unit, strukt, variant, view>>

\* force_temp that also puts the field back to a normal parse.
force_tempNormal ==
    /\ pc \in {"field_done", "field_forced"}
    /\ outcome # "Err"
    /\ this' = [this EXCEPT !.temp = Some("unit"), !.read_mode = "Normal"]
    /\ pc' = "field_forced"
    /\ UNCHANGED <<write, input, malformed, n, listed, unit, strukt, errors,
                   outcome, variant, view>>

\* StructField::force_temp on a resolved field, any number of times.
force_temp ==
    /\ pc \in {"field_done", "field_forced"}
    /\ outcome # "Err"
    /\ this' = [this EXCEPT !.temp = Some("unit")]
    /\ pc' = "field_forced"
    /\ UNCHANGED <<write, input, malformed, n, listed, unit, strukt, errors,
                   outcome, variant, view>>

\* One iteration of set_from_attrs for a UnitEnumField.
TrySetUnitAttr(kw) ==
    /\ pc = "variant_attrs"
    /\ input.fields = "Unit"
    /\ ~malformed
    /\ n < MaxAttrs
    /\ unit' = UnitTrySet(unit, kw, n + 1, write)[1]
    /\ errors' = errors \o UnitTrySet(unit, kw, n + 1, write)[2]
    /\ n' = n + 1
    /\ UNCHANGED <<write, input, malformed, pc, listed, this, strukt, outcome, variant, view>>

\* One iteration of set_from_attrs for the Struct of a compound variant.
TrySetStructAttr(kw) ==
    /\ pc = "variant_attrs"
    /\ input.fields \in {"Named", "Unnamed"}
    /\ ~malformed
    /\ n < MaxAttrs
    /\ strukt' = StructTrySet(strukt, kw, n + 1, write)[1]
    /\ errors' = errors \o StructTrySet(strukt, kw, n + 1, write)[2]
    /\ n' = n + 1
    /\ UNCHANGED <<write, input, malformed, pc, listed, this, unit, outcome, variant, view>>

\* EnumVariant::from_field at the end of the directive list: wrap and return.
EnumVariant_from_field ==
    /\ pc = "variant_attrs"
    /\ outcome' = set_from_attrs(malformed, errors)
    /\ errors' = IF malformed THEN <<Error(SCAN_MSG, FieldSpan)>> ELSE errors
    /\ variant' = IF malformed THEN NoVariant ELSE EnumVariantOf(input, unit, strukt)
    /\ pc' = "variant_done"
    /\ UNCHANGED <<write, input, malformed, n, listed, this, unit, strukt, view>>

\* Struct::from(variant) on a resolved variant.
IntoStruct ==
    /\ pc = "variant_done"
    /\ outcome # "Err"
    /\ view' = StructFromEnumVariant(variant)
    /\ pc' = "converted"
    /\ UNCHANGED <<write, input, malformed, n, listed, this, unit, strukt, errors, outcome,
                   variant>>

Next ==
    \/ \E kw \in FieldKeywords : TrySetFieldAttr(kw)
    \/ \E joinable \in BOOLEAN : StructField_from_field(joinable)
    \/ force_temp
    \/ \E kw \in UnitKeywords : TrySetUnitAttr(kw)
    \/ \E kw \in StructKeywords : TrySetStructAttr(kw)
    \/ EnumVariant_from_field
    \/ IntoStruct

Spec == Init /\ [][Next]_vars

\* The resolution of one named field alone: the fold of its directives, the
\* return of from_field and force_temp.
InitField == Init /\ pc = "field_attrs" /\ input.ident # None

NextField ==
    \/ \E kw \in FieldKeywords : TrySetFieldAttr(kw)
    \/ \E joinable \in BOOLEAN : StructField_from_field(joinable)
    \/ force_temp

SpecField == InitField /\ [][NextField]_vars

(***************************************************************************)
(* Properties                                                              *)
(***************************************************************************)
\* Number of fold-time diagnostics (duplicate or rejected directive) in errs.
FoldErrors(errs) ==
    Cardinality({i \in 1..Len(errs) : errs[i].msg \in {DUPLICATE_MSG, UNKNOWN_MSG}})

\* The cross-directive constraints a field spec violates, by their message.
Violated(t) ==
    (IF t.deref_now # None /\ t.offset_after # None THEN {MUTEX_MSG} ELSE {})
    \cup (IF t.do_try # None /\ t.read_mode \in {"Calc", "Default"} THEN {TRY_MSG} ELSE {})
    \cup (IF t.args # "None" /\ t.read_mode = "Calc" THEN {ARGS_MSG} ELSE {})

\* The single-valued attributes of t that are set.
SetAttrs(t) == {a \in FieldAttrs : t[a] # FieldDefault(a)}

\* C1 as stated: every field whose directive list names both deref_now and
\* offset_after, in read or write mode, returns a non-empty error set with the
\* mutual-exclusion diagnostic.
C1_Original ==
    (pc = "field_done" /\ listed = {"deref_now", "offset_after"})
        => (errors # <<>> /\ MUTEX_MSG \in Msgs(errors))

\* C1 amended: in read mode, every field whose directive list names both
\* deref_now and offset_after resolves to a partial result whose errors contain
\* the mutual-exclusion diagnostic, whatever the order and the other directives.
C1_ReadModeExclusive ==
    (pc = "field_done" /\ ~write /\ listed = {"deref_now", "offset_after"})
        => (outcome = "Partial" /\ MUTEX_MSG \in Msgs(errors))

\* C1 witness: deref_now first, another directive, offset_after last.
C1_Witness ==
    /\ pc = "field_done" /\ ~write /\ n = 3
    /\ this.deref_now = Some(1) /\ this.offset_after = Some(3)
    /\ MUTEX_MSG \in Msgs(errors)

\* C2 as stated: the returned errors hold one diagnostic per fold-time error and
\* one per violated cross-directive constraint, so none is dropped for another.
C2_Original ==
    (pc = "field_done" /\ outcome # "Err")
        => /\ \A m \in Violated(this) : m \in Msgs(errors)
           /\ Len(errors) >= FoldErrors(errors) + Cardinality(Violated(this))

\* C3 as stated: has_no_attrs is true only if every optional attribute,
\* err_context included, is unset and the four enums are at their defaults.
C3_Original ==
    (pc = "field_done" /\ outcome # "Err" /\ has_no_attrs(this))
        => \A a \in FieldAttrs : this[a] = FieldDefault(a)

\* C4 as stated: a variant with an empty field list yields EnumVariant::Unit, one
\* with a non-empty field list yields EnumVariant::Variant with its identifier.
C4_Original ==
    (pc = "variant_done" /\ outcome # "Err")
        => /\ input.nfields = 0 => variant.tag = "Unit"
           /\ input.nfields > 0 =>
                (variant.tag = "Variant" /\ variant.ident = input.ident)

\* C4 amended: in both modes a variant written without a field list yields
\* EnumVariant::Unit holding the folded UnitEnumField, and a variant written with
\* a named or positional field list, empty or not, yields EnumVariant::Variant
\* holding its identifier and the resolved Struct.
C4_BySyntax ==
    (pc = "variant_done" /\ outcome # "Err")
        => IF input.fields = "Unit"
           THEN /\ variant.tag = "Unit"
                /\ variant.field = unit
                /\ variant.field.ident = input.ident
           ELSE /\ variant.tag = "Variant"
                /\ variant.ident = input.ident
                /\ variant.options = strukt
                /\ Len(variant.options.fields) = input.nfields

\* C4 witness: a positional variant with fields, resolved for write.
C4_Witness ==
    /\ pc = "variant_done" /\ write /\ outcome = "Ok"
    /\ input.fields = "Unnamed" /\ input.nfields = 2
    /\ variant.tag = "Variant"

C6_TryIncompatible ==
    (pc = "field_done" /\ outcome # "Err" /\ this.do_try # None)
        => IF this.read_mode \in {"Calc", "Default"}
           THEN outcome = "Partial" /\ errors # <<>>
           ELSE TRY_MSG \notin Msgs(errors)

\* C6 witness: try with default.
C6_Witness ==
    /\ pc = "field_done" /\ this.do_try # None /\ this.read_mode = "Default"
    /\ TRY_MSG \in Msgs(errors)

\* C7: at every point of the fold each directive folded so far has set an
\* attribute, appended an assertion or added one error (none stopped the fold),
\* the assertions are in source order, and whatever directive comes next: an
\* attribute already set keeps its value; a later occurrence of a single-valued
\* attribute changes nothing and adds a duplicate error; a first occurrence sets
\* the directive's value without error; an assertion is appended without error.
C7_FoldInOrder ==
    pc = "field_attrs" =>
        /\ n = Cardinality(SetAttrs(this)) + Len(this.assertions) + Len(errors)
        /\ \A i \in 1..Len(this.assertions) :
              /\ this.assertions[i] \in 1..n
              /\ i > 1 => this.assertions[i - 1] < this.assertions[i]
        /\ \A i \in 1..Len(errors) :
              /\ errors[i].span[1] \in 1..n
              /\ i > 1 => errors[i - 1].span[1] < errors[i].span[1]
        /\ LET set == SetAttrs(this)
           IN  \A kw \in StructFieldAttr(write) :
                 FieldTrySet(this, kw, n + 1, write) =
                    IF kw = "Assert"
                    THEN <<[this EXCEPT !.assertions = Append(@, n + 1)], None>>
                    ELSE IF FieldAttrOf(kw) \in set
                    THEN <<this, Some(Error(DUPLICATE_MSG, SpanAt(n + 1)))>>
                    ELSE <<[this EXCEPT ![FieldAttrOf(kw)] = FieldValueOf(kw, n + 1)],
                           None>>

\* C7 witness: the second directive repeated the first one's attribute and the
\* third was still folded.
C7_Witness ==
    /\ pc = "field_attrs" /\ n = 3
    /\ this.endian = "FixedBig"
    /\ Len(errors) = 1 /\ errors[1] = Error(DUPLICATE_MSG, SpanAt(2))
    /\ this.do_try = Some(3)

\* C8: with no directive, in both modes, a field resolves to Ok with every
\* attribute at its default (has_no_attrs, is_written, not generated_value) and a
\* unit variant resolves to Ok without magic or pre-assertions.
C8_DefaultComplete ==
    /\ (pc = "field_done" /\ n = 0 /\ ~malformed)
          => /\ outcome = "Ok" /\ errors = <<>>
             /\ SetAttrs(this) = {} /\ this.assertions = <<>>
             /\ has_no_attrs(this) /\ is_written(this) /\ ~generated_value(this)
    /\ (pc = "variant_done" /\ input.fields = "Unit" /\ n = 0 /\ ~malformed)
          => /\ outcome = "Ok" /\ errors = <<>>
             /\ variant.tag = "Unit"
             /\ variant.field.magic = None
             /\ variant.field.pre_assertions = <<>>

\* C8 witness: a positional field without directives resolved for write.
C8_Witness ==
    /\ pc = "field_done" /\ n = 0 /\ write /\ outcome = "Ok"
    /\ this.generated_ident

\* C9: every step from a resolved field sets the temporary marker and changes
\* nothing else of the spec or of the result; repeating it changes nothing; after
\* it is_temp holds for read and for write.
C9_ForceTempFrame ==
    [][(pc \in {"field_done", "field_forced"}) =>
        /\ this' = [this EXCEPT !.temp = Some("unit")]
        /\ [this' EXCEPT !.temp = Some("unit")] = this'
        /\ is_temp(this', TRUE) /\ is_temp(this', FALSE)
        /\ UNCHANGED <<errors, outcome, input, write>>
      ]_vars

\* C9 witness: a calculated field without temp directive, forced temporary.
C9_Witness ==
    /\ pc = "field_forced" /\ write /\ this.read_mode = "Calc"
    /\ this.temp = Some("unit")

\* C10: from_field returns Err exactly when the fold failed totally, Ok exactly
\* when the fold had no error and the spec violates no constraint, else Partial;
\* the spec returned is the folded one, and an Ok spec violates no constraint.
C10_OutcomeKind ==
    [][(pc = "field_attrs" /\ pc' = "field_done") =>
        /\ this' = this
        /\ outcome' \in {"Ok", "Partial", "Err"}
        /\ outcome' = "Err" <=> malformed
        /\ outcome' = "Ok" <=> (~malformed /\ errors = <<>> /\ Violated(this) = {})
        /\ outcome' = "Ok" =>
              /\ errors' = <<>>
              /\ ~(this'.deref_now # None /\ this'.offset_after # None)
              /\ ~(this'.do_try # None /\ this'.read_mode \in {"Calc", "Default"})
              /\ ~(this'.args # "None" /\ this'.read_mode = "Calc")
      ]_vars

\* C10 witness: a fold without error made partial by validation alone.
C10_Witness ==
    /\ pc = "field_done" /\ outcome = "Partial"
    /\ Len(errors) = 1 /\ errors[1].msg = ARGS_MSG

====
